---- MODULE Spec2Model ----
(***************************************************************************)
(* Containers library (emmonbear/containers).                              *)
(*                                                                         *)
(* Two machines share this module:                                         *)
(*   - the ordered-associative engine (red-black tree behind set, map and  *)
(*     multiset) with its iterator protocol.  containers/set.h, map.h and  *)
(*     multiset.h are included by s21_containers.h / s21_containersplus.h  *)
(*     but their text is not part of the source tree at hand, so the       *)
(*     engine is written down from the design document (spec.md 3-7);      *)
(*   - the doubly linked list of src/src/containers/list.h (third, final   *)
(*     revision of the header, lines 784-1730), translated statement by    *)
(*     statement over an explicit heap of nodes.                           *)
(***************************************************************************)
EXTENDS Integers, Sequences, FiniteSets, TLC

\* ---------------------------------------------------------------- bounds
\* arena capacity of the tree (number of node slots)
MaxNodes == 5
\* Set keys are 1..MaxKey
MaxKey == 5
\* Multiset keys are 1..MaxMultiKey (duplicates fill the arena)
MaxMultiKey == 2
\* Map keys are 1..MaxMapKey, mapped values 1..MaxVal
MaxMapKey == 2
MaxVal == 2
\* merge(other): other holds at most MaxMerge elements
MaxMerge == 2
\* the ascending-insertion scenario inserts keys out of 1..MaxAsc
MaxAsc == 7
\* the step-by-step insertion scenario fills a Multiset with up to MaxFix
\* keys out of 1..MaxFixKey
MaxFix == 8
MaxFixKey == 3

\* heap cells available to list nodes, and the values stored in them
MaxListNodes == 3
MaxPairNodes == 4
MaxListVal == 2

Nil == 0
\* slots of the arena; an adapter never holds more than its capacity of them
Largest(a, b) == IF a > b THEN a ELSE b

ArenaSize == Largest(Largest(MaxNodes, MaxAsc), MaxFix)
Slots == 1..ArenaSize

VARIABLES
    kind,    \* adapter policy: "set", "map" or "multiset"
    node,    \* arena: slot -> Node record; slot 0 is the nil sentinel
    root,    \* Tree.root (Nil when empty)
    size,    \* Tree.size
    alloc,   \* slots currently holding a Node
    ret,     \* what the last public operation returned to its caller
    hist,    \* the tree's elements before a pending insert/erase round trip
    fixup    \* where an insert under way stands in its fixup loop

treevars == <<kind, node, root, size, alloc, ret, hist, fixup>>

VARIABLES
    lnode,   \* heap: address -> list Node (value_, prev_, next_); 0 is nullptr
    llive,   \* addresses holding a Node that has not been deleted
    head_,   \* list::head_
    tail_,   \* list::tail_
    size_,   \* list::size_
    lst,     \* "ok", "ub" (a deleted node was accessed), "crashed", or
             \* "ill-formed" (the call has no function it can bind to)
    lret     \* what the last list operation returned to its caller

VARIABLES
    olist,   \* a second list object in the same heap: head_, tail_, size_ and
             \* whether it is constructed
    ref      \* the values a reference sequence container holds, oldest first

pairvars == <<olist, ref>>

listvars == <<lnode, llive, head_, tail_, size_, lst, lret, olist, ref>>

vars == <<kind, node, root, size, alloc, ret, hist, fixup,
          lnode, llive, head_, tail_, size_, lst, lret, olist, ref>>

\* ------------------------------------------------------------------ Node
Blank == [key |-> 0, val |-> 0, color |-> "BLACK",
          parent |-> Nil, left |-> Nil, right |-> Nil]

EmptyArena == [i \in 0..ArenaSize |-> Blank]

Keys(k) == IF k = "set" THEN 1..MaxKey
           ELSE IF k = "map" THEN 1..MaxMapKey
           ELSE 1..MaxMultiKey

Vals(k) == IF k = "map" THEN 1..MaxVal ELSE {0}

\* comparator: the strict weak order over keys
Less(a, b) == a < b

\* A tree value: the arena, the root and the set of live slots.
Tree(N, r, A) == [node |-> N, root |-> r, alloc |-> A]

\* ------------------------------------------------------------- rotations
LeftRotate(T, x) ==
    LET N  == T.node
        y  == N[x].right
        yl == N[y].left
        p  == N[x].parent
        N1 == [N EXCEPT ![x].right = yl]
        N2 == IF yl # Nil THEN [N1 EXCEPT ![yl].parent = x] ELSE N1
        N3 == [N2 EXCEPT ![y].parent = p]
        N4 == IF p = Nil THEN N3
              ELSE IF x = N[p].left THEN [N3 EXCEPT ![p].left = y]
              ELSE [N3 EXCEPT ![p].right = y]
        N5 == [N4 EXCEPT ![y].left = x, ![x].parent = y]
    IN  [T EXCEPT !.node = N5, !.root = IF p = Nil THEN y ELSE T.root]

RightRotate(T, x) ==
    LET N  == T.node
        y  == N[x].left
        yr == N[y].right
        p  == N[x].parent
        N1 == [N EXCEPT ![x].left = yr]
        N2 == IF yr # Nil THEN [N1 EXCEPT ![yr].parent = x] ELSE N1
        N3 == [N2 EXCEPT ![y].parent = p]
        N4 == IF p = Nil THEN N3
              ELSE IF x = N[p].right THEN [N3 EXCEPT ![p].right = y]
              ELSE [N3 EXCEPT ![p].left = y]
        N5 == [N4 EXCEPT ![y].right = x, ![x].parent = y]
    IN  [T EXCEPT !.node = N5, !.root = IF p = Nil THEN y ELSE T.root]

\* ------------------------------------------------- traversal primitives
RECURSIVE Leftmost(_, _)
Leftmost(N, x) == IF x = Nil \/ N[x].left = Nil THEN x ELSE Leftmost(N, N[x].left)

RECURSIVE Rightmost(_, _)
Rightmost(N, x) == IF x = Nil \/ N[x].right = Nil THEN x ELSE Rightmost(N, N[x].right)

\* min() / max(): leftmost / rightmost node reachable from the root
TreeMin(T) == Leftmost(T.node, T.root)
TreeMax(T) == Rightmost(T.node, T.root)

\* walk up via parent until moving from a left child, or nil is reached
\* (variant) the walk stops at the first parent, whichever side it came from
ClimbToParent(N, x) == N[x].parent

RECURSIVE ClimbFromRight(_, _)
ClimbFromRight(N, x) ==
    LET p == N[x].parent
    IN  IF p = Nil THEN Nil
        ELSE IF x = N[p].left THEN p
        ELSE ClimbFromRight(N, p)

RECURSIVE ClimbFromLeft(_, _)
ClimbFromLeft(N, x) ==
    LET p == N[x].parent
    IN  IF p = Nil THEN Nil
        ELSE IF x = N[p].right THEN p
        ELSE ClimbFromLeft(N, p)

Successor(T, x) ==
    IF T.node[x].right # Nil THEN Leftmost(T.node, T.node[x].right)
    ELSE ClimbFromRight(T.node, x)

\* predecessor(end()) is the maximum: reverse traversal starts from end()
Predecessor(T, x) ==
    IF x = Nil THEN TreeMax(T)
    ELSE IF T.node[x].left # Nil THEN Rightmost(T.node, T.node[x].left)
    ELSE ClimbFromLeft(T.node, x)

Begin(T) == TreeMin(T)
End == Nil

\* ---------------------------------------------------------------- lookup
\* find(key): descend by comparator.  The leftmost equal node is kept as the
\* candidate, so that a Multiset gets the first equal element in order.
RECURSIVE FindFrom(_, _, _, _)
FindFrom(N, x, k, best) ==
    IF x = Nil THEN best
    ELSE IF Less(k, N[x].key) THEN FindFrom(N, N[x].left, k, best)
    ELSE IF Less(N[x].key, k) THEN FindFrom(N, N[x].right, k, best)
    ELSE FindFrom(N, N[x].left, k, x)

Find(T, k) == FindFrom(T.node, T.root, k, Nil)

Contains(T, k) == Find(T, k) # Nil

\* first node not less than key, tracking the best candidate while descending
RECURSIVE LowerFrom(_, _, _, _)
LowerFrom(N, x, k, best) ==
    IF x = Nil THEN best
    ELSE IF Less(N[x].key, k) THEN LowerFrom(N, N[x].right, k, best)
    ELSE LowerFrom(N, N[x].left, k, x)

LowerBound(T, k) == LowerFrom(T.node, T.root, k, Nil)

\* first node greater than key
RECURSIVE UpperFrom(_, _, _, _)
UpperFrom(N, x, k, best) ==
    IF x = Nil THEN best
    ELSE IF Less(k, N[x].key) THEN UpperFrom(N, N[x].left, k, x)
    ELSE UpperFrom(N, N[x].right, k, best)

UpperBound(T, k) == UpperFrom(T.node, T.root, k, Nil)

\* Multiset count(key): walk the equal-key run starting from lower_bound
RECURSIVE CountFrom(_, _, _)
CountFrom(T, x, k) ==
    IF x = Nil \/ Less(k, T.node[x].key) \/ Less(T.node[x].key, k) THEN 0
    ELSE 1 + CountFrom(T, Successor(T, x), k)

Count(T, k) == CountFrom(T, LowerBound(T, k), k)

\* (variants of Descend) a smaller key sent to the right subtree; the unique
\* policy not applied; an equal key of a Multiset sent to the left
RECURSIVE DescendMirrored(_, _, _, _, _, _)
DescendMirrored(N, x, y, side, k, unique) ==
    IF x = Nil THEN [parent |-> y, side |-> side, found |-> Nil]
    ELSE IF Less(k, N[x].key) THEN DescendMirrored(N, N[x].right, x, "right", k, unique)
    ELSE IF unique /\ ~Less(N[x].key, k)
    THEN [parent |-> x, side |-> side, found |-> x]
    ELSE DescendMirrored(N, N[x].left, x, "left", k, unique)

RECURSIVE DescendNoUnique(_, _, _, _, _, _)
DescendNoUnique(N, x, y, side, k, unique) ==
    IF x = Nil THEN [parent |-> y, side |-> side, found |-> Nil]
    ELSE IF Less(k, N[x].key) THEN DescendNoUnique(N, N[x].left, x, "left", k, unique)
    ELSE DescendNoUnique(N, N[x].right, x, "right", k, unique)

RECURSIVE DescendEqualLeft(_, _, _, _, _, _)
DescendEqualLeft(N, x, y, side, k, unique) ==
    IF x = Nil THEN [parent |-> y, side |-> side, found |-> Nil]
    ELSE IF Less(k, N[x].key) THEN DescendEqualLeft(N, N[x].left, x, "left", k, unique)
    ELSE IF unique /\ ~Less(N[x].key, k)
    THEN [parent |-> x, side |-> side, found |-> x]
    ELSE IF ~Less(N[x].key, k) THEN DescendEqualLeft(N, N[x].left, x, "left", k, unique)
    ELSE DescendEqualLeft(N, N[x].right, x, "right", k, unique)

\* ---------------------------------------------------------------- insert
\* Descend from the root to the first nil child slot.  Unique policy stops at
\* an equal node; the Multiset policy treats an equal key as "not less" and
\* descends right.  Result: the parent found with the side of its nil slot,
\* and the equal node if any.
RECURSIVE Descend(_, _, _, _, _, _)
Descend(N, x, y, side, k, unique) ==
    IF x = Nil THEN [parent |-> y, side |-> side, found |-> Nil]
    ELSE IF Less(k, N[x].key) THEN Descend(N, N[x].left, x, "left", k, unique)
    ELSE IF unique /\ ~Less(N[x].key, k)
    THEN [parent |-> x, side |-> side, found |-> x]
    ELSE Descend(N, N[x].right, x, "right", k, unique)

SetColor(T, x, c) == [T EXCEPT !.node[x].color = c]

\* Fixup: while the node's parent is RED apply the recolor / rotate cases.
\* uncle RED: parent and uncle BLACK, grandparent RED
Recolor(T, p, u, g) ==
    SetColor(SetColor(SetColor(T, p, "BLACK"), u, "BLACK"), g, "RED")

\* uncle BLACK, node now an outer child: recolor and rotate the grandparent
RecolorRotate(T, z, toRight) ==
    LET p == T.node[z].parent
        g == T.node[p].parent
        Rot(T2) == IF toRight THEN RightRotate(T2, g) ELSE LeftRotate(T2, g)
    IN  Rot(SetColor(SetColor(T, p, "BLACK"), g, "RED"))

\* what one pass of the loop does: the tree it leaves, the node it goes on
\* with, the case it took and the rotations it made
Pass(T, z, case, rotations) ==
    [tree |-> T, z |-> z, case |-> case, rotations |-> rotations]

FixupStep(T, z) ==
    LET N == T.node
        p == N[z].parent
        g == N[p].parent
    IN  IF p = Nil \/ N[p].color # "RED" THEN Pass(T, z, "exit", 0)
        ELSE IF p = N[g].left
        THEN LET u == N[g].right
             IN  IF u # Nil /\ N[u].color = "RED"
                 THEN Pass(Recolor(T, p, u, g), g, "recolor", 0)
                 ELSE IF z = N[p].right
                 \* inner child: rotate the node's parent first
                 THEN Pass(RecolorRotate(LeftRotate(T, p), p, TRUE), p, "rotate", 2)
                 ELSE Pass(RecolorRotate(T, z, TRUE), z, "rotate", 1)
        ELSE LET u == N[g].left
             IN  IF u # Nil /\ N[u].color = "RED"
                 THEN Pass(Recolor(T, p, u, g), g, "recolor", 0)
                 ELSE IF z = N[p].left
                 THEN Pass(RecolorRotate(RightRotate(T, p), p, FALSE), p, "rotate", 2)
                 ELSE Pass(RecolorRotate(T, z, FALSE), z, "rotate", 1)

RECURSIVE InsertFixupLoop(_, _)
InsertFixupLoop(T, z) ==
    LET Go(s) == IF s.case = "exit" THEN s.tree ELSE InsertFixupLoop(s.tree, s.z)
    IN  Go(FixupStep(T, z))

\* (variant) no recolouring or rotation, only the root forced BLACK
InsertFixupRootOnly(T, z) == [T EXCEPT !.node[T.root].color = "BLACK"]

\* (variant) the root keeps the colour the loop left it
LeaveRoot(T) == T

\* root is forced BLACK at the end
BlackenRoot(T) == [T EXCEPT !.node[T.root].color = "BLACK"]

InsertFixup(T, z) == BlackenRoot(InsertFixupLoop(T, z))

\* node creation takes the lowest free slot of the arena
NewSlot(A) == CHOOSE s \in Slots \ A : \A t \in Slots \ A : s <= t

\* the new node is RED and is attached as a child of the found parent
Attach(T, z, y, side, k, v) ==
    LET N1 == [T.node EXCEPT ![z] = [key |-> k, val |-> v, color |-> "RED",
                                     parent |-> y, left |-> Nil, right |-> Nil]]
        N2 == IF y = Nil THEN N1
              ELSE IF side = "left" THEN [N1 EXCEPT ![y].left = z]
              ELSE [N1 EXCEPT ![y].right = z]
    IN  Tree(N2, IF y = Nil THEN z ELSE T.root, T.alloc \cup {z})

InsertAt(T, d, z, k, v, cap) ==
    IF d.found # Nil
    THEN [tree |-> T, it |-> d.found, inserted |-> FALSE, err |-> "none"]
    ELSE IF Cardinality(T.alloc) >= cap
    THEN [tree |-> T, it |-> End, inserted |-> FALSE, err |-> "AllocationFailure"]
    ELSE [tree |-> InsertFixup(Attach(T, z, d.parent, d.side, k, v), z),
          it |-> z, inserted |-> TRUE, err |-> "none"]

\* insert(key, value) -> (iterator, inserted), plus the error raised if any
TreeInsert(T, k, v, unique, cap) ==
    InsertAt(T, Descend(T.node, T.root, Nil, "root", k, unique),
             IF T.alloc = Slots THEN Nil ELSE NewSlot(T.alloc), k, v, cap)

\* ----------------------------------------------------------------- erase
\* Splice target out: its child (or the nil sentinel, which keeps the parent
\* link for the duration of the fixup) takes its place.
SpliceOut(T, t, x) ==
    LET N  == T.node
        p  == N[t].parent
        N1 == [N EXCEPT ![x].parent = p]
        N2 == IF p = Nil THEN N1
              ELSE IF t = N[p].left THEN [N1 EXCEPT ![p].left = x]
              ELSE [N1 EXCEPT ![p].right = x]
    IN  [T EXCEPT !.node = N2, !.root = IF p = Nil THEN x ELSE T.root]

Color(T, x) == T.node[x].color

\* Deletion fixup: x carries the missing black unit up the tree.
RECURSIVE DeleteFixupLoop(_, _)

\* sibling BLACK with a far RED child: recolor, rotate the parent, done
FarRed(T, p, left) ==
    LET w == IF left THEN T.node[p].right ELSE T.node[p].left
        f == IF left THEN T.node[w].right ELSE T.node[w].left
        Rot(T3) == IF left THEN LeftRotate(T3, p) ELSE RightRotate(T3, p)
        Done(T4) == DeleteFixupLoop(T4, T4.root)
    IN  Done(Rot(SetColor(SetColor(SetColor(T, w, Color(T, p)), p, "BLACK"), f, "BLACK")))

\* sibling BLACK with only the near child RED: rotate the sibling
NearRed(T, w, left) ==
    LET n == IF left THEN T.node[w].left ELSE T.node[w].right
        Rot(T2) == IF left THEN RightRotate(T2, w) ELSE LeftRotate(T2, w)
    IN  Rot(SetColor(SetColor(T, n, "BLACK"), w, "RED"))

\* the sibling is BLACK here
BlackSibling(T, p, left) ==
    LET w == IF left THEN T.node[p].right ELSE T.node[p].left
        f == IF left THEN T.node[w].right ELSE T.node[w].left
    IN  IF Color(T, T.node[w].left) = "BLACK" /\ Color(T, T.node[w].right) = "BLACK"
        \* both children nil-colored: recolor the sibling RED and move up
        THEN DeleteFixupLoop(SetColor(T, w, "RED"), p)
        ELSE IF Color(T, f) = "BLACK"
        THEN FarRed(NearRed(T, w, left), p, left)
        ELSE FarRed(T, p, left)

\* sibling RED: rotate the parent and recolor
RedSibling(T, p, w, left) ==
    LET Rot(T1) == IF left THEN LeftRotate(T1, p) ELSE RightRotate(T1, p)
    IN  Rot(SetColor(SetColor(T, w, "BLACK"), p, "RED"))

DeleteFixupLoop(T, x) ==
    IF x = T.root \/ Color(T, x) # "BLACK" THEN SetColor(T, x, "BLACK")
    ELSE LET p    == T.node[x].parent
             left == x = T.node[p].left
             w    == IF left THEN T.node[p].right ELSE T.node[p].left
         IN  IF Color(T, w) = "RED"
             THEN BlackSibling(RedSibling(T, p, w, left), p, left)
             ELSE BlackSibling(T, p, left)

\* (variant) the missing black unit is never restored
DeleteFixupSkip(T, x) == T

DeleteFixup(T, x) == DeleteFixupLoop(T, x)

\* the slot of a destroyed Node goes back to the arena; the sentinel's
\* bookkeeping is dropped once the fixup is over
Release(T, t) ==
    [T EXCEPT !.node = [T.node EXCEPT ![t] = Blank, ![Nil] = Blank],
              !.alloc = T.alloc \ {t}]

\* the node to remove physically has at most one child
RemoveNode(T, s) ==
    LET x == IF T.node[s].left # Nil THEN T.node[s].left ELSE T.node[s].right
        Fix(T1) == IF Color(T, s) = "BLACK" THEN DeleteFixup(T1, x) ELSE T1
    IN  Release(Fix(SpliceOut(T, s, x)), s)

\* (variant) two children: the successor is removed but its key/value is not
\* copied into the target node
TreeEraseNoCopy(T, z) ==
    IF z = End \/ z \notin T.alloc
    THEN [tree |-> T, removed |-> Nil, err |-> "InvalidIterator"]
    ELSE LET s == IF T.node[z].left # Nil /\ T.node[z].right # Nil
                  THEN Leftmost(T.node, T.node[z].right) ELSE z
         IN  [tree |-> RemoveNode(T, s), removed |-> s, err |-> "none"]

\* erase(iterator)
TreeErase(T, z) ==
    IF z = End \/ z \notin T.alloc
    THEN [tree |-> T, removed |-> Nil, err |-> "InvalidIterator"]
    ELSE IF T.node[z].left # Nil /\ T.node[z].right # Nil
    \* two non-nil children: copy the in-order successor's key/value into the
    \* target node and physically remove the successor instead
    THEN LET s == Leftmost(T.node, T.node[z].right)
         IN  [tree |-> RemoveNode([T EXCEPT !.node[z].key = T.node[s].key,
                                            !.node[z].val = T.node[s].val], s),
              removed |-> s, err |-> "none"]
    ELSE [tree |-> RemoveNode(T, z), removed |-> z, err |-> "none"]

\* --------------------------------------------------------- whole-tree ops
\* clear(): teardown visits every node once and leaves the valid-empty tree
TreeClear(T) == Tree(EmptyArena, Nil, {})

\* merge(other): the elements of other, taken in order, are spliced into self;
\* an element the unique policy rejects (or the arena cannot hold) stays in other
RECURSIVE TreeMerge(_, _, _, _, _)
TreeMerge(T, other, unique, cap, moved) ==
    IF other = <<>> THEN [tree |-> T, moved |-> moved]
    ELSE LET Rest(r) == TreeMerge(r.tree, Tail(other), unique, cap,
                                  IF r.inserted THEN moved + 1 ELSE moved)
         IN  Rest(TreeInsert(T, Head(other)[1], Head(other)[2], unique, cap))

\* the in-order element sequences another tree of this policy can hold
OtherTrees(k) ==
    LET Elems == Keys(k) \X Vals(k)
        Seqs  == UNION {[1..n -> Elems] : n \in 0..MaxMerge}
    IN  {q \in Seqs : \A i \in 1..(Len(q) - 1) :
            IF k = "multiset" THEN ~Less(q[i + 1][1], q[i][1])
            ELSE Less(q[i][1], q[i + 1][1])}

\* ------------------------------------------------- structural observers
\* in-order traversal by structure: left subtree, node, right subtree
RECURSIVE InOrder(_, _)
InOrder(N, x) ==
    IF x = Nil THEN <<>>
    ELSE InOrder(N, N[x].left) \o <<x>> \o InOrder(N, N[x].right)

KeysOf(N, q) == [i \in 1..Len(q) |-> N[q[i]].key]

ElemsOf(N, q) == [i \in 1..Len(q) |-> <<N[q[i]].key, N[q[i]].val>>]

RECURSIVE BlackHeight(_, _)
\* number of BLACK nodes on the paths from x down to nil, or -1 when two
\* paths disagree
BlackHeight(N, x) ==
    IF x = Nil THEN 0
    ELSE LET l == BlackHeight(N, N[x].left)
             r == BlackHeight(N, N[x].right)
         IN  IF l = -1 \/ r = -1 \/ l # r THEN -1
             ELSE l + (IF N[x].color = "BLACK" THEN 1 ELSE 0)

RECURSIVE Height(_, _)
\* number of nodes on the longest path from x down to a nil leaf
Height(N, x) ==
    IF x = Nil THEN 0
    ELSE LET l == Height(N, N[x].left)
             r == Height(N, N[x].right)
         IN  1 + (IF l > r THEN l ELSE r)

\* ------------------------------------------------------------ the machine
CurTree == Tree(node, root, alloc)

Traversal == InOrder(node, root)

Unique == kind # "multiset"

Result(op, k, it, ok, err) ==
    [op |-> op, key |-> k, it |-> it, ok |-> ok, err |-> err]

NoHist == [stage |-> "none", key |-> 0, elems |-> <<>>, size |-> 0]

\* no insert is under way
NoFixup == [phase |-> "idle", z |-> Nil, new |-> Nil, case |-> "none", rotations |-> 0]

TreeInit ==
    /\ kind \in {"set", "map", "multiset"}
    /\ node = EmptyArena
    /\ root = Nil
    /\ size = 0
    /\ alloc = {}
    /\ ret = Result("init", 0, Nil, FALSE, "none")
    /\ hist = NoHist
    /\ fixup = NoFixup

\* the tree an operation leaves behind becomes the container's tree
Install(T) ==
    /\ node' = T.node
    /\ root' = T.root
    /\ alloc' = T.alloc

\* (variant) size is incremented for a rejected insert too
InsertCapCountsRejected(k, v, cap) ==
    LET Done(r) ==
            /\ Install(r.tree)
            /\ size' = IF r.err = "none" THEN size + 1 ELSE size
            /\ ret' = Result("insert", k, r.it, r.inserted, r.err)
            /\ hist' = NoHist
            /\ UNCHANGED <<kind, fixup>>
    IN  Done(TreeInsert(CurTree, k, v, Unique, cap))

InsertCap(k, v, cap) ==
    LET Done(r) ==
            /\ Install(r.tree)
            /\ size' = IF r.inserted THEN size + 1 ELSE size
            /\ ret' = Result("insert", k, r.it, r.inserted, r.err)
            /\ hist' = IF r.inserted /\ ~Contains(CurTree, k)
                       THEN [stage |-> "inserted", key |-> k,
                             elems |-> ElemsOf(node, Traversal), size |-> size]
                       ELSE NoHist
            /\ UNCHANGED <<kind, fixup>>
    IN  Done(TreeInsert(CurTree, k, v, Unique, cap))

Insert(k, v) == InsertCap(k, v, MaxNodes)

\* the round trip is complete when the key just inserted is the one erased
AfterErase(k, ok) ==
    IF ok /\ hist.stage = "inserted" /\ hist.key = k
    THEN [hist EXCEPT !.stage = "erased"]
    ELSE NoHist

EraseAt(op, k, pos) ==
    LET Done(r) ==
            /\ Install(r.tree)
            /\ size' = IF r.err = "none" THEN size - 1 ELSE size
            /\ ret' = Result(op, k, pos, r.err = "none", r.err)
            /\ hist' = AfterErase(k, r.err = "none")
            /\ UNCHANGED <<kind, fixup>>
    IN  Done(TreeErase(CurTree, pos))

\* erase(iterator): pos is any iterator of this tree, end() included
Erase(pos) == EraseAt("erase", node[pos].key, pos)

\* erase(key): the adapter resolves the key with find and erases that position
EraseKey(k) == EraseAt("erase_key", k, Find(CurTree, k))

Clear ==
    /\ Install(TreeClear(CurTree))
    /\ size' = 0
    /\ ret' = Result("clear", 0, Nil, TRUE, "none")
    /\ hist' = NoHist
    /\ UNCHANGED <<kind, fixup>>

Merge(other) ==
    LET Done(r) ==
            /\ Install(r.tree)
            /\ size' = size + r.moved
            /\ ret' = Result("merge", Len(other), Nil, r.moved = Len(other), "none")
            /\ hist' = NoHist
            /\ UNCHANGED <<kind, fixup>>
    IN  Done(TreeMerge(CurTree, other, Unique, MaxNodes, 0))

\* ======================================================== list (list.h)
Addrs == 1..MaxListNodes

\* the heap two list objects share is one cell larger
HeapSize == IF MaxPairNodes > MaxListNodes THEN MaxPairNodes ELSE MaxListNodes
Heap == 1..HeapSize
PairAddrs == 1..MaxPairNodes
ListVals == 1..MaxListVal

\* Node(value): value_{value}, prev_{nullptr}, next_{nullptr}
NewNode(v) == [value |-> v, prev |-> Nil, next |-> Nil]

EmptyHeap == [a \in 0..HeapSize |-> NewNode(0)]

\* A list value: the heap it lives in and its three members.  A cell that
\* holds no live node has no content of its own (it reads as a fresh cell).
List(N, L, h, t, n) ==
    [node |-> [a \in 0..HeapSize |-> IF a \in L THEN N[a] ELSE NewNode(0)],
     live |-> L, head |-> h, tail |-> t, size |-> n]

\* An operation's outcome: the list after it, the addresses it dereferenced
\* (against the nodes live while it ran) and what it returned.
Outcome(l, live, derefs, it) ==
    [list |-> l, nullderef |-> Nil \in derefs,
     uaf |-> \E a \in derefs : a # Nil /\ a \notin live, it |-> it]

empty(l) == l.size = 0

begin(l) == IF empty(l) THEN Nil ELSE l.head

end == Nil

\* the iterators obtained from begin() by operator++, end() included
RECURSIVE Walk(_, _, _)
Walk(l, x, n) ==
    IF x = Nil \/ n = 0 THEN {Nil}
    ELSE {x} \cup Walk(l, l.node[x].next, n - 1)

Positions(l) == Walk(l, begin(l), HeapSize)

\* the nodes of a list in begin()-to-end() order, and the values they hold
RECURSIVE NodesFrom(_, _, _)
NodesFrom(l, x, n) ==
    IF x = Nil \/ n = 0 THEN <<>>
    ELSE <<x>> \o NodesFrom(l, l.node[x].next, n - 1)

Nodes(l) == NodesFrom(l, begin(l), HeapSize + 1)

Elements(l) == [i \in 1..Len(Nodes(l)) |-> l.node[Nodes(l)[i]].value]

push_back(l, a, v) ==
    LET N0 == [l.node EXCEPT ![a] = NewNode(v)]
        L0 == l.live \cup {a}
    IN  IF l.head = Nil
        THEN Outcome(List(N0, L0, a, a, l.size + 1), L0, {}, Nil)
        ELSE LET N1 == [N0 EXCEPT ![l.tail].next = a, ![a].prev = l.tail]
             IN  Outcome(List(N1, L0, l.head, a, l.size + 1), L0, {l.tail}, Nil)

push_front(l, a, v) ==
    LET N0 == [l.node EXCEPT ![a] = NewNode(v)]
        L0 == l.live \cup {a}
    IN  IF empty(l)
        THEN Outcome(List(N0, L0, a, a, l.size + 1), L0, {}, Nil)
        ELSE LET N1 == [N0 EXCEPT ![a].next = l.head, ![l.head].prev = a]
             IN  Outcome(List(N1, L0, a, l.tail, l.size + 1), L0, {l.head}, Nil)

\* pop_back reports "list is empty" on an empty list and changes nothing;
\* delete of a null head_ is a no-op, delete of a deleted node a double free
pop_back(l) ==
    IF empty(l) THEN Outcome(l, l.live, {}, Nil)
    ELSE IF l.size = 1
    THEN Outcome(List(l.node, l.live \ {l.head}, Nil, Nil, l.size - 1), l.live,
                 IF l.head = Nil THEN {} ELSE {l.head}, Nil)
    ELSE LET prev == l.node[l.tail].prev
             N1   == [l.node EXCEPT ![prev].next = Nil]
         IN  Outcome(List(N1, l.live \ {l.tail}, l.head, prev, l.size - 1), l.live,
                     {l.tail, prev}, Nil)

\* (variant) pop_front() leaves tail_ alone when the last element goes
pop_front_keeps_tail(l) ==
    IF l.head = Nil THEN Outcome(l, l.live, {}, Nil)
    ELSE LET old  == l.head
             h1   == l.node[old].next
             N1   == IF h1 # Nil THEN [l.node EXCEPT ![h1].prev = Nil] ELSE l.node
         IN  Outcome(List(N1, l.live \ {old}, h1, l.tail, l.size - 1), l.live,
                     {old} \cup (IF h1 # Nil THEN {h1} ELSE {}), Nil)

pop_front(l) ==
    IF l.head = Nil THEN Outcome(l, l.live, {}, Nil)
    ELSE LET old  == l.head
             h1   == l.node[old].next
             N1   == IF h1 # Nil THEN [l.node EXCEPT ![h1].prev = Nil] ELSE l.node
             t1   == IF h1 # Nil THEN l.tail ELSE Nil
         IN  Outcome(List(N1, l.live \ {old}, h1, t1, l.size - 1), l.live,
                     {old} \cup (IF h1 # Nil THEN {h1} ELSE {}), Nil)

insert(l, pos, a, v) ==
    LET N0 == [l.node EXCEPT ![a] = NewNode(v)]
        L0 == l.live \cup {a}
    IN  IF pos = Nil
        THEN LET N1 == [N0 EXCEPT ![a].prev = l.tail]
                 N2 == IF l.tail # Nil THEN [N1 EXCEPT ![l.tail].next = a] ELSE N1
                 h1 == IF l.tail # Nil THEN l.head ELSE a
             IN  Outcome(List(N2, L0, h1, a, l.size + 1), L0,
                         IF l.tail # Nil THEN {l.tail} ELSE {}, a)
        ELSE LET pp == N0[pos].prev
                 N1 == [N0 EXCEPT ![a].prev = pp, ![a].next = pos]
                 N2 == IF pp # Nil THEN [N1 EXCEPT ![pp].next = a] ELSE N1
                 h1 == IF pp # Nil THEN l.head ELSE a
                 N3 == [N2 EXCEPT ![pos].prev = a]
             IN  Outcome(List(N3, L0, h1, l.tail, l.size + 1), L0,
                         {pos} \cup (IF pp # Nil THEN {pp} ELSE {}), a)

\* erase(pos): nothing is removed, and end() is returned without any error,
\* when pos == end() or the list is empty
erase(l, pos) ==
    IF pos # end /\ ~empty(l)
    THEN LET nx == l.node[pos].next
             pv == l.node[pos].prev
         IN  IF pos = l.head
             THEN Outcome(List(l.node, l.live \ {pos}, nx, l.tail, l.size - 1),
                          l.live, {pos}, nx)
             ELSE IF pos = l.tail
             THEN Outcome(List([l.node EXCEPT ![pv].next = Nil], l.live \ {pos},
                               l.head, pv, l.size - 1),
                          l.live, {pos, pv}, nx)
             ELSE Outcome(List([l.node EXCEPT ![nx].prev = pv, ![pv].next = nx],
                               l.live \ {pos}, l.head, l.tail, l.size - 1),
                          l.live, {pos, nx, pv}, nx)
    ELSE Outcome(l, l.live, {}, end)

\* clear(): while (!empty()) pop_back();
RECURSIVE clear(_)
clear(l) ==
    IF empty(l) THEN Outcome(l, l.live, {}, Nil)
    ELSE LET o == pop_back(l)
         IN  IF o.nullderef \/ o.uaf THEN o ELSE clear(o.list)

\* (variant) the copy is built with push_front
RECURSIVE copy_loop_reversed(_, _, _, _)
copy_loop_reversed(l, current, addrs, n) ==
    IF current = Nil \/ n = 0 THEN Outcome(l, l.live, {}, Nil)
    ELSE LET More(o) == copy_loop_reversed(o.list, l.node[current].next,
                                           Tail(addrs), n - 1)
         IN  More(push_front(l, Head(addrs), l.node[current].value))

\* copy_from(l): push_back of every value met from l.head_ along next_; addrs
\* are the addresses operator new returns, in order
RECURSIVE copy_loop(_, _, _, _)
copy_loop(l, current, addrs, n) ==
    IF current = Nil \/ n = 0 THEN Outcome(l, l.live, {}, Nil)
    ELSE IF current \notin l.live THEN Outcome(l, l.live, {current}, Nil)
    ELSE LET More(o) == IF o.nullderef \/ o.uaf THEN o
                        ELSE copy_loop(o.list, l.node[current].next, Tail(addrs), n - 1)
         IN  More(push_back(l, Head(addrs), l.node[current].value))

\* list(const list &l): head_{nullptr}, tail_{nullptr}, size_{0}; copy_from(l)
copy_from(src, addrs) ==
    copy_loop(List(src.node, src.live, Nil, Nil, 0), src.head, addrs, Len(addrs))

\* the members of a list object, without the heap
Members(h, t, n) == [head |-> h, tail |-> t, size |-> n]

\* the outcome of an operation on two list objects of the same heap
Outcome2(N, L, a, b, live, derefs) ==
    [node |-> List(N, L, Nil, Nil, 0).node, live |-> L, this |-> a, that |-> b,
     nullderef |-> Nil \in derefs,
     uaf |-> \E x \in derefs : x # Nil /\ x \notin live]

\* (variant) the source keeps its head_ and size_
move_from_shared(l) ==
    Outcome2(l.node, l.live, Members(l.head, Nil, l.size),
             Members(l.head, l.tail, l.size), l.live, {})

\* list(list &&l): takes head_, tail_ and size_ and resets those of l
move_from(l) ==
    Outcome2(l.node, l.live, Members(Nil, Nil, 0),
             Members(l.head, l.tail, l.size), l.live, {})

\* (variant) swap() leaves the sizes where they are
swap_links(l, o) ==
    Outcome2(l.node, l.live, Members(o.head, o.tail, l.size),
             Members(l.head, l.tail, o.size), l.live, {})

\* swap(other): the three members change places
swap(l, o) ==
    Outcome2(l.node, l.live, Members(o.head, o.tail, o.size),
             Members(l.head, l.tail, l.size), l.live, {})

\* splice(pos, other), other being another object than *this
splice(l, pos, o) ==
    IF empty(o) THEN Outcome2(l.node, l.live, Members(l.head, l.tail, l.size),
                              Members(o.head, o.tail, o.size), l.live, {})
    ELSE IF empty(l) THEN swap(l, o)
    ELSE LET first == o.head
             last  == o.tail
             pp    == l.node[pos].prev
             N1    == IF pos = l.head THEN l.node
                      ELSE [l.node EXCEPT ![pp].next = first, ![first].prev = pp]
             N2    == [N1 EXCEPT ![last].next = pos, ![pos].prev = last]
         IN  Outcome2(N2, l.live,
                      Members(IF pos = l.head THEN first ELSE l.head, l.tail,
                              l.size + o.size),
                      Members(Nil, Nil, 0), l.live,
                      {last, pos} \cup (IF pos = l.head THEN {} ELSE {pp, first}))

\* the same list object seen in the heap another operation left
Rebase(l, h) == List(h.node, h.live, l.head, l.tail, l.size)

\* a failed step of a two-list operation, and the end of one
Failed(l, o, nullderef, uaf, valid) ==
    [node |-> l.node, live |-> l.live, this |-> Members(l.head, l.tail, l.size),
     that |-> Members(o.head, o.tail, o.size),
     nullderef |-> nullderef, uaf |-> uaf, valid |-> valid]

Finished(l, o) == Failed(l, o, FALSE, FALSE, TRUE)

\* merge(other): the two loops; ti is this_it, oi is other_it, addrs the
\* addresses operator new returns (valid only if free when returned)
RECURSIVE merge_loop(_, _, _, _, _, _)

\* other_it = other.erase(other_it), after the value went into this list
merge_erase(i, o, ti, oi, addrs, n) ==
    IF i.nullderef \/ i.uaf THEN Failed(i.list, o, i.nullderef, i.uaf, TRUE)
    ELSE LET Next(e) ==
                 IF e.nullderef \/ e.uaf
                 THEN Failed(i.list, o, e.nullderef, e.uaf, TRUE)
                 ELSE merge_loop(Rebase(i.list, e.list), e.list, ti, e.it,
                                 Tail(addrs), n - 1)
         IN  Next(erase(Rebase(o, i.list), oi))

merge_loop(l, o, ti, oi, addrs, n) ==
    IF oi = Nil \/ n = 0 THEN Finished(l, Rebase(o, l))
    ELSE IF oi \notin l.live \/ (ti # Nil /\ ti \notin l.live)
    THEN Failed(l, o, FALSE, TRUE, TRUE)
    ELSE IF ti # Nil /\ ~(l.node[oi].value < l.node[ti].value)
    THEN merge_loop(l, o, l.node[ti].next, oi, addrs, n - 1)
    ELSE IF addrs = <<>> \/ Head(addrs) \in l.live
    THEN Failed(l, o, FALSE, FALSE, FALSE)
    ELSE IF ti # Nil
    THEN merge_erase(insert(l, ti, Head(addrs), l.node[oi].value), o, ti, oi, addrs, n)
    ELSE merge_erase(push_back(l, Head(addrs), l.node[oi].value), o, ti, oi, addrs, n)

\* (variant) merge() without its first loop: every element is appended
merge_appending(l, o, addrs) ==
    merge_loop(l, o, end, begin(o), addrs, 2 * HeapSize + 2)

merge(l, o, addrs) == merge_loop(l, o, begin(l), begin(o), addrs, 2 * HeapSize + 2)

\* reverse(): the loop exchanges next_ and prev_ of every node
RECURSIVE reverse_loop(_, _, _, _, _)
reverse_loop(N, current, prev_node, derefs, n) ==
    IF current = Nil \/ n = 0
    THEN [node |-> N, prev_node |-> prev_node, derefs |-> derefs]
    ELSE reverse_loop([N EXCEPT ![current].next = prev_node,
                                ![current].prev = N[current].next],
                      N[current].next, current, derefs \cup {current}, n - 1)

\* (variant) tail_ is not set to the former head_
reverseKeepsTail(l) ==
    IF l.size < 2 THEN Outcome(l, l.live, {}, Nil)
    ELSE LET Done(r) == Outcome(List(r.node, l.live, r.prev_node, l.tail, l.size),
                                l.live, r.derefs, Nil)
         IN  Done(reverse_loop(l.node, l.head, Nil, {}, HeapSize + 1))

reverse(l) ==
    IF l.size < 2 THEN Outcome(l, l.live, {}, Nil)
    ELSE LET Done(r) == Outcome(List(r.node, l.live, r.prev_node, l.head, l.size),
                                l.live, r.derefs, Nil)
         IN  Done(reverse_loop(l.node, l.head, Nil, {}, HeapSize + 1))

\* (variant) unique() moves on after a removal, leaving the next duplicate
RECURSIVE unique_loop_skipping(_, _, _)
unique_loop_skipping(l, current, n) ==
    IF current = Nil \/ n = 0 THEN Outcome(l, l.live, {}, Nil)
    ELSE LET rm == l.node[current].next
             nx == l.node[rm].next
         IN  IF rm = Nil THEN Outcome(l, l.live, {}, Nil)
             ELSE IF l.node[current].value # l.node[rm].value
             THEN unique_loop_skipping(l, rm, n - 1)
             ELSE IF nx # Nil
             THEN unique_loop_skipping(List([l.node EXCEPT ![current].next = nx,
                                                           ![nx].prev = current],
                                            l.live \ {rm}, l.head, l.tail, l.size - 1),
                                       nx, n - 1)
             ELSE Outcome(List([l.node EXCEPT ![current].next = Nil],
                               l.live \ {rm}, l.head, current, l.size - 1),
                          l.live, {}, Nil)

\* unique(): a node equal to the one before it is unlinked and deleted
RECURSIVE unique_loop(_, _, _)
unique_loop(l, current, n) ==
    IF current = Nil \/ n = 0 THEN Outcome(l, l.live, {}, Nil)
    ELSE IF current \notin l.live THEN Outcome(l, l.live, {current}, Nil)
    ELSE LET rm == l.node[current].next
             nx == l.node[rm].next
         IN  IF rm = Nil THEN Outcome(l, l.live, {}, Nil)
             ELSE IF rm \notin l.live THEN Outcome(l, l.live, {rm}, Nil)
             ELSE IF l.node[current].value # l.node[rm].value
             THEN unique_loop(l, rm, n - 1)
             ELSE IF nx # Nil /\ nx \notin l.live THEN Outcome(l, l.live, {nx}, Nil)
             ELSE IF nx # Nil
             THEN unique_loop(List([l.node EXCEPT ![current].next = nx,
                                                  ![nx].prev = current],
                                   l.live \ {rm}, l.head, l.tail, l.size - 1),
                              current, n - 1)
             ELSE unique_loop(List([l.node EXCEPT ![current].next = Nil],
                                   l.live \ {rm}, l.head, current, l.size - 1),
                              current, n - 1)

unique(l) ==
    IF empty(l) THEN Outcome(l, l.live, {}, Nil)
    ELSE IF l.head = Nil \/ l.head \notin l.live THEN Outcome(l, l.live, {l.head}, Nil)
    ELSE unique_loop(l, l.head, 2 * HeapSize + 2)

\* sort(): the body is empty
sort(l) == Outcome(l, l.live, {}, Nil)

\* operator==: the sizes, then the values node by node while both lists last
RECURSIVE equal_loop(_, _, _, _)
equal_loop(N, c1, c2, n) ==
    IF c1 = Nil \/ c2 = Nil \/ n = 0 THEN TRUE
    ELSE IF N[c1].value # N[c2].value THEN FALSE
    ELSE equal_loop(N, N[c1].next, N[c2].next, n - 1)

\* (variant) operator== compares the sizes only
equalSizes(l, o) == l.size = o.size

equal(l, o) ==
    IF l.size # o.size THEN FALSE
    ELSE equal_loop(l.node, l.head, o.head, HeapSize + 1)

\* What an accessor hands back: the value, the exception thrown if any, and
\* the addresses it read.
Access(value, err, derefs) == [value |-> value, err |-> err, derefs |-> derefs]

\* value_type{}: the value of the function-local static default_value
DefaultValue == 0

\* front() / back(): throw std::out_of_range("list is empty") when empty
front(l) ==
    IF empty(l) THEN Access(DefaultValue, "out_of_range", {})
    ELSE Access(l.node[l.head].value, "none", {l.head})

\* (variant) back() without the emptiness test
backUnchecked(l) == Access(l.node[l.tail].value, "none", {l.tail})

back(l) ==
    IF empty(l) THEN Access(DefaultValue, "out_of_range", {})
    ELSE Access(l.node[l.tail].value, "none", {l.tail})

\* ListIterator::operator*: node_ ? node_->value_ : default_value
Deref(l, pos) ==
    IF pos # Nil THEN Access(l.node[pos].value, "none", {pos})
    ELSE Access(DefaultValue, "none", {})

\* ------------------------------------------------------ the list machine
CurList == List(lnode, llive, head_, tail_, size_)

LResult(op, pos, it, err) == [op |-> op, pos |-> pos, it |-> it, err |-> err]

\* the second list object before its construction and after its destruction
NoList == [head |-> Nil, tail |-> Nil, size |-> 0, made |-> FALSE, by |-> "none"]

ListInit ==
    /\ lnode = EmptyHeap
    /\ llive = {}
    /\ head_ = Nil
    /\ tail_ = Nil
    /\ size_ = 0
    /\ lst = "ok"
    /\ lret = LResult("init", Nil, Nil, "none")
    /\ olist = NoList
    /\ ref = <<>>

\* The effect of an operation on the program.  Dereferencing nullptr ends the
\* process ("crashed").  An access to a deleted node is undefined behaviour:
\* nothing is assumed about what the build does next, the run is left in
\* "ub" and no later statement of it is modelled.
Commit(o, op, pos) ==
    IF o.nullderef \/ o.uaf
    THEN /\ lst' = IF o.nullderef THEN "crashed" ELSE "ub"
         /\ lret' = LResult(op, pos, Nil, lst')
         /\ UNCHANGED <<lnode, llive, head_, tail_, size_>>
    ELSE /\ lnode' = o.list.node
         /\ llive' = o.list.live
         /\ head_' = o.list.head
         /\ tail_' = o.list.tail
         /\ size_' = o.list.size
         /\ lst' = lst
         /\ lret' = LResult(op, pos, o.it, "none")

Running == lst = "ok"

\* new Node: the allocator hands out any cell that holds no live node
PushBack(a, v) ==
    /\ Running
    /\ a \in Heap \ llive
    /\ Commit(push_back(CurList, a, v), "push_back", Nil)

PushFront(a, v) ==
    /\ Running
    /\ a \in Heap \ llive
    /\ Commit(push_front(CurList, a, v), "push_front", Nil)

PopBack ==
    /\ Running
    /\ Commit(pop_back(CurList), "pop_back", Nil)

PopFront ==
    /\ Running
    /\ Commit(pop_front(CurList), "pop_front", Nil)

ListInsert(pos, a, v) ==
    /\ Running
    /\ a \in Heap \ llive
    /\ Commit(insert(CurList, pos, a, v), "insert", pos)

ListErase(pos) ==
    /\ Running
    /\ Commit(erase(CurList, pos), "erase", pos)

ListClear ==
    /\ Running
    /\ Commit(clear(CurList), "clear", Nil)

\* what an accessor returned: the value read and the exception thrown
AResult(op, pos, a) ==
    [op |-> op, pos |-> pos, it |-> Nil, err |-> a.err, value |-> a.value]

\* an accessor changes nothing; it reads the nodes it dereferences
Observe(a, op, pos) ==
    /\ lst' = IF Nil \in a.derefs THEN "crashed"
              ELSE IF a.derefs \subseteq llive THEN lst ELSE "ub"
    /\ lret' = IF lst' = "ok" THEN AResult(op, pos, a) ELSE LResult(op, pos, Nil, lst')
    /\ UNCHANGED <<lnode, llive, head_, tail_, size_>>

Front ==
    /\ Running
    /\ Observe(front(CurList), "front", Nil)

Back ==
    /\ Running
    /\ Observe(back(CurList), "back", Nil)

\* *it for an iterator of the list, end() included
Star(pos) ==
    /\ Running
    /\ Observe(Deref(CurList, pos), "deref", pos)

\* ------------------------------------------------- two lists in one heap
CurOther == List(lnode, llive, olist.head, olist.tail, olist.size)

CurMembers == Members(head_, tail_, size_)

OtherMembers == Members(olist.head, olist.tail, olist.size)

\* an operation on the second list leaves the members of the first alone
OnOther(o) ==
    [node |-> o.list.node, live |-> o.list.live, this |-> CurMembers,
     that |-> Members(o.list.head, o.list.tail, o.list.size),
     nullderef |-> o.nullderef, uaf |-> o.uaf]

\* the addresses n successive allocations can return
AddrSeqs(n, free) ==
    {q \in [1..n -> free] : \A i, j \in 1..n : i # j => q[i] # q[j]}

FreeSeqs(n) == AddrSeqs(n, PairAddrs \ llive)

Commit2(o, op, pos, it, made) ==
    IF o.nullderef \/ o.uaf
    THEN /\ lst' = IF o.nullderef THEN "crashed" ELSE "ub"
         /\ lret' = LResult(op, pos, Nil, lst')
         /\ UNCHANGED <<lnode, llive, head_, tail_, size_, olist>>
    ELSE /\ lnode' = o.node
         /\ llive' = o.live
         /\ head_' = o.this.head
         /\ tail_' = o.this.tail
         /\ size_' = o.this.size
         /\ olist' = [head |-> o.that.head, tail |-> o.that.tail,
                      size |-> o.that.size, made |-> made,
                      by |-> IF ~made THEN "none"
                             ELSE IF op \in {"copy", "move"} THEN op
                             ELSE olist.by]
         /\ lst' = lst
         /\ lret' = LResult(op, pos, it, "none")

\* list other(l): the copy constructor builds the second list from the first
CopyConstruct(addrs) ==
    /\ Running
    /\ ~olist.made
    /\ Commit2(OnOther(copy_from(CurList, addrs)), "copy", Nil, Nil, TRUE)

\* list other(std::move(l))
MoveConstruct ==
    /\ Running
    /\ ~olist.made
    /\ Commit2(move_from(CurList), "move", Nil, Nil, TRUE)

\* other = l: operator=(const list &l) begins with `if (this != l)`, a list*
\* compared with a list, for which no operator!= exists: the assignment
\* binds to no function that can be instantiated
CopyAssign ==
    /\ Running
    /\ olist.made
    /\ lst' = "ill-formed"
    /\ lret' = LResult("copy_assign", Nil, Nil, lst')
    /\ UNCHANGED <<lnode, llive, head_, tail_, size_, olist>>

\* ~list(): clear()
OtherDestroy ==
    /\ Running
    /\ olist.made
    /\ Commit2(OnOther(clear(CurOther)), "other.destroy", Nil, Nil, FALSE)

\* l.splice(pos, other)
Splice(pos) ==
    /\ Running
    /\ olist.made
    /\ Commit2(splice(CurList, pos, CurOther), "splice", pos, Nil, TRUE)

OtherPushBack(a, v) ==
    /\ Running
    /\ olist.made
    /\ a \in Heap \ llive
    /\ Commit2(OnOther(push_back(CurOther, a, v)), "other.push_back", Nil, Nil, TRUE)

OtherPopFront ==
    /\ Running
    /\ olist.made
    /\ Commit2(OnOther(pop_front(CurOther)), "other.pop_front", Nil, Nil, TRUE)

OtherInsert(pos, a, v) ==
    /\ Running
    /\ olist.made
    /\ a \in Heap \ llive
    /\ LET Done(o) == Commit2(OnOther(o), "other.insert", pos, o.it, TRUE)
       IN  Done(insert(CurOther, pos, a, v))

OtherErase(pos) ==
    /\ Running
    /\ olist.made
    /\ LET Done(o) == Commit2(OnOther(o), "other.erase", pos, o.it, TRUE)
       IN  Done(erase(CurOther, pos))

\* ------------------------------------ list operations on whole sequences
\* a default-constructed second list
NewList == [NoList EXCEPT !.made = TRUE, !.by = "default"]

ListReverse ==
    /\ Running
    /\ Commit(reverse(CurList), "reverse", Nil)

ListUnique ==
    /\ Running
    /\ Commit(unique(CurList), "unique", Nil)

ListSort ==
    /\ Running
    /\ Commit(sort(CurList), "sort", Nil)

\* l.merge(other)
ListMerge(addrs) ==
    /\ Running
    /\ olist.made
    /\ LET Done(o) == o.valid /\ Commit2(o, "merge", Nil, Nil, TRUE)
       IN  Done(merge(CurList, CurOther, addrs))

\* l.swap(other)
ListSwap ==
    /\ Running
    /\ olist.made
    /\ Commit2(swap(CurList, CurOther), "swap", Nil, Nil, TRUE)

\* l == other
ListEqual ==
    /\ Running
    /\ olist.made
    /\ lret' = [op |-> "equal", pos |-> Nil, it |-> Nil, err |-> "none",
                 value |-> equal(CurList, CurOther)]
    /\ UNCHANGED <<lnode, llive, head_, tail_, size_, lst, olist>>

\* queue::operator=(queue &&q): swap(q), which is c.swap(other.c)
QueueMoveAssign ==
    /\ Running
    /\ olist.made
    /\ Commit2(swap(CurList, CurOther), "queue.move_assign", Nil, Nil, TRUE)

\* stack::operator=(stack &&s): swap(s), which is std::swap(c, other.c);
\* std::swap needs list::operator=(list &&), whose `return std::move(*this)`
\* cannot initialise the list & it returns: the assignment binds to no
\* function that can be instantiated
StackMoveAssign ==
    /\ Running
    /\ olist.made
    /\ lst' = "ill-formed"
    /\ lret' = LResult("stack.move_assign", Nil, Nil, lst')
    /\ UNCHANGED <<lnode, llive, head_, tail_, size_, olist>>

\* ------------------------------------------------ stack (stack.h) over list
\* the reference sequence without its newest element
ButLast(q) == IF q = <<>> THEN q ELSE SubSeq(q, 1, Len(q) - 1)

\* push(value): c.push_back(value)
StackPush(a, v) ==
    /\ PushBack(a, v)
    /\ ref' = Append(ref, v)
    /\ UNCHANGED olist

\* (variant) pop() removes the oldest element
StackPopOldest ==
    /\ PopFront
    /\ ref' = ButLast(ref)
    /\ UNCHANGED olist

\* pop(): c.pop_back()
StackPop ==
    /\ PopBack
    /\ ref' = ButLast(ref)
    /\ UNCHANGED olist

\* top(): return c.back()
StackTop ==
    /\ Running
    /\ Observe(back(CurList), "top", Nil)
    /\ UNCHANGED pairvars

\* stack(const stack &other) and stack(const Container &s): c is copy
\* constructed (std::move of a const list selects list(const list &) too)
StackCopy(addrs) ==
    /\ CopyConstruct(addrs)
    /\ UNCHANGED ref

\* stack(stack &&other) and stack(Container &&s): c(std::move(...))
StackMove ==
    /\ MoveConstruct
    /\ ref' = <<>>

\* ~stack(): the member list is destroyed
StackDestroy ==
    /\ OtherDestroy
    /\ UNCHANGED ref

\* ------------------------------------------------ queue (queue.h) over list
\* list(std::initializer_list): push_back of every item
RECURSIVE init_list(_, _, _)
init_list(l, items, addrs) ==
    IF items = <<>> THEN l
    ELSE init_list(push_back(l, Head(addrs), Head(items)).list, Tail(items), Tail(addrs))

ItemSeqs == UNION {[1..n -> ListVals] : n \in 0..MaxListNodes}

\* queue(std::initializer_list<value_type> const &items) : c(items)
QueueInit ==
    \E items \in ItemSeqs : \E addrs \in AddrSeqs(Len(items), Addrs) :
        LET Made(l) ==
                /\ lnode = l.node
                /\ llive = l.live
                /\ head_ = l.head
                /\ tail_ = l.tail
                /\ size_ = l.size
        IN  /\ Made(init_list(List(EmptyHeap, {}, Nil, Nil, 0), items, addrs))
            /\ lst = "ok"
            /\ lret = LResult("init", Nil, Nil, "none")
            /\ olist = NoList
            /\ ref = items

\* push(value): c.push_back() passes no argument, and list declares only
\* push_back(const_reference): the call binds to no function
QueuePush(v) ==
    /\ Running
    /\ lst' = "ill-formed"
    /\ lret' = LResult("push", Nil, Nil, lst')
    /\ ref' = Append(ref, v)
    /\ UNCHANGED <<lnode, llive, head_, tail_, size_, olist>>

\* pop(): c.pop_front()
QueuePop ==
    /\ PopFront
    /\ ref' = IF ref = <<>> THEN ref ELSE Tail(ref)
    /\ UNCHANGED olist

\* front(): return c.front()
QueueFront ==
    /\ Running
    /\ Observe(front(CurList), "front", Nil)
    /\ UNCHANGED pairvars

\* back(): return c.back()
QueueBack ==
    /\ Running
    /\ Observe(back(CurList), "back", Nil)
    /\ UNCHANGED pairvars

\* ------------------------------------------------------- specifications
Init == TreeInit /\ ListInit

Next ==
    \/ \E k \in Keys(kind), v \in Vals(kind) : Insert(k, v) /\ UNCHANGED listvars
    \/ \E pos \in alloc \cup {End} : Erase(pos) /\ UNCHANGED listvars
    \/ \E k \in Keys(kind) : EraseKey(k) /\ UNCHANGED listvars
    \/ Clear /\ UNCHANGED listvars
    \/ \E other \in OtherTrees(kind) : Merge(other) /\ UNCHANGED listvars

\* the associative containers under every sequence of public operations
Spec == Init /\ [][Next]_vars

\* The ascending scenario: a Set that receives keys in increasing order only
\* (each new key is greater than every key it holds), with erase anywhere.
AscInit == Init /\ kind = "set"

AscInsert(k) ==
    /\ \A n \in alloc : Less(node[n].key, k)
    /\ InsertCap(k, 0, MaxAsc)

AscNext ==
    \/ \E k \in 1..MaxAsc : AscInsert(k) /\ UNCHANGED listvars
    \/ \E pos \in alloc \cup {End} : Erase(pos) /\ UNCHANGED listvars

AscSpec == AscInit /\ [][AscNext]_vars

\* An insert taken one pass of its fixup loop at a time: the descent attaches
\* the RED node, each pass of the loop is a step, and the exit blackens the
\* root and returns.
FixupBegin(k) ==
    /\ fixup.phase = "idle"
    /\ Cardinality(alloc) < MaxFix
    /\ LET d == Descend(node, root, Nil, "root", k, Unique)
           z == NewSlot(alloc)
       IN  /\ d.found = Nil
           /\ Install(Attach(CurTree, z, d.parent, d.side, k, 0))
           /\ fixup' = [phase |-> "loop", z |-> z, new |-> z, case |-> "none",
                        rotations |-> 0]
    /\ UNCHANGED <<kind, size, ret, hist>>

FixupPass ==
    /\ fixup.phase = "loop"
    /\ LET Take(s) ==
               /\ s.case # "exit"
               /\ Install(s.tree)
               /\ fixup' = [fixup EXCEPT !.z = s.z, !.case = s.case,
                                         !.rotations = s.rotations]
       IN  Take(FixupStep(CurTree, fixup.z))
    /\ UNCHANGED <<kind, size, ret, hist>>

FixupExit ==
    /\ fixup.phase = "loop"
    /\ FixupStep(CurTree, fixup.z).case = "exit"
    /\ Install(BlackenRoot(CurTree))
    /\ size' = size + 1
    /\ ret' = Result("insert", node[fixup.new].key, fixup.new, TRUE, "none")
    /\ fixup' = [fixup EXCEPT !.phase = "idle", !.case = "exit", !.rotations = 0]
    /\ UNCHANGED <<kind, hist>>

FixupNext ==
    \/ \E k \in 1..MaxFixKey : FixupBegin(k) /\ UNCHANGED listvars
    \/ FixupPass /\ UNCHANGED listvars
    \/ FixupExit /\ UNCHANGED listvars

\* every operation runs to its end before it returns: a pass that can be
\* taken is taken
FixupInit == Init /\ kind = "multiset"

FixupSpec ==
    /\ FixupInit
    /\ [][FixupNext]_vars
    /\ WF_treevars(FixupPass)
    /\ WF_treevars(FixupExit)

\* the list under every sequence of its public operations
LInit == TreeInit /\ kind = "set" /\ ListInit

LNext ==
    \/ \E a \in Addrs, v \in ListVals : PushBack(a, v) /\ UNCHANGED <<treevars, pairvars>>
    \/ \E a \in Addrs, v \in ListVals : PushFront(a, v) /\ UNCHANGED <<treevars, pairvars>>
    \/ PopBack /\ UNCHANGED <<treevars, pairvars>>
    \/ PopFront /\ UNCHANGED <<treevars, pairvars>>
    \/ \E pos \in Positions(CurList), a \in Addrs, v \in ListVals :
          ListInsert(pos, a, v) /\ UNCHANGED <<treevars, pairvars>>
    \/ \E pos \in Positions(CurList) : ListErase(pos) /\ UNCHANGED <<treevars, pairvars>>
    \/ ListClear /\ UNCHANGED <<treevars, pairvars>>
    \/ Front /\ UNCHANGED <<treevars, pairvars>>
    \/ Back /\ UNCHANGED <<treevars, pairvars>>
    \/ \E pos \in Positions(CurList) : Star(pos) /\ UNCHANGED <<treevars, pairvars>>

ListSpec == LInit /\ [][LNext]_vars

\* the stack adapter: pushes, pops, top, and construction of a second stack
SNext ==
    \/ \E a \in PairAddrs, v \in ListVals : StackPush(a, v) /\ UNCHANGED treevars
    \/ StackPop /\ UNCHANGED treevars
    \/ StackTop /\ UNCHANGED treevars
    \/ \E addrs \in FreeSeqs(Len(Nodes(CurList))) : StackCopy(addrs) /\ UNCHANGED treevars
    \/ StackMove /\ UNCHANGED treevars
    \/ StackDestroy /\ UNCHANGED treevars

StackSpec == LInit /\ [][SNext]_vars

\* two lists: the first under its modifiers, the second constructed from it
\* by copy or by move, modified, assigned, spliced into the first, destroyed
PNext ==
    \/ \E a \in Addrs, v \in ListVals :
          PushBack(a, v) /\ UNCHANGED <<treevars, pairvars>>
    \/ PopBack /\ UNCHANGED <<treevars, pairvars>>
    \/ PopFront /\ UNCHANGED <<treevars, pairvars>>
    \/ \E pos \in Positions(CurList), a \in Addrs, v \in ListVals :
          ListInsert(pos, a, v) /\ UNCHANGED <<treevars, pairvars>>
    \/ \E a \in Addrs, v \in ListVals :
          OtherPushBack(a, v) /\ UNCHANGED <<treevars, ref>>
    \/ OtherPopFront /\ UNCHANGED <<treevars, ref>>
    \/ \E pos \in Positions(CurOther), a \in Addrs, v \in ListVals :
          OtherInsert(pos, a, v) /\ UNCHANGED <<treevars, ref>>
    \/ \E addrs \in AddrSeqs(Len(Nodes(CurList)), Addrs \ llive) :
          CopyConstruct(addrs) /\ UNCHANGED <<treevars, ref>>
    \/ CopyAssign /\ UNCHANGED <<treevars, ref>>
    \/ MoveConstruct /\ UNCHANGED <<treevars, ref>>
    \/ OtherDestroy /\ UNCHANGED <<treevars, ref>>
    \/ \E pos \in Positions(CurList) : Splice(pos) /\ UNCHANGED <<treevars, ref>>

PairSpec == LInit /\ [][PNext]_vars

\* two lists built by push_back and pop_front, under the operations that work
\* on whole sequences
AInit ==
    /\ TreeInit /\ kind = "set"
    /\ lnode = EmptyHeap /\ llive = {}
    /\ head_ = Nil /\ tail_ = Nil /\ size_ = 0
    /\ lst = "ok"
    /\ lret = LResult("init", Nil, Nil, "none")
    /\ olist = NewList
    /\ ref = <<>>

ANext ==
    \/ \E a \in PairAddrs, v \in ListVals :
          PushBack(a, v) /\ UNCHANGED <<treevars, pairvars>>
    \/ PopFront /\ UNCHANGED <<treevars, pairvars>>
    \/ \E a \in PairAddrs, v \in ListVals :
          OtherPushBack(a, v) /\ UNCHANGED <<treevars, ref>>
    \/ OtherPopFront /\ UNCHANGED <<treevars, ref>>
    \/ ListReverse /\ UNCHANGED <<treevars, pairvars>>
    \/ ListUnique /\ UNCHANGED <<treevars, pairvars>>
    \/ ListSort /\ UNCHANGED <<treevars, pairvars>>
    \/ \E addrs \in [1..Len(Nodes(CurOther)) -> PairAddrs] :
          ListMerge(addrs) /\ UNCHANGED <<treevars, ref>>
    \/ ListSwap /\ UNCHANGED <<treevars, ref>>
    \/ ListEqual /\ UNCHANGED <<treevars, ref>>
    \/ QueueMoveAssign /\ UNCHANGED <<treevars, ref>>
    \/ StackMoveAssign /\ UNCHANGED <<treevars, ref>>

AlgoSpec == AInit /\ [][ANext]_vars

\* the queue adapter, constructed from an initializer list
QInit == TreeInit /\ kind = "set" /\ QueueInit

QNext ==
    \/ \E v \in ListVals : QueuePush(v) /\ UNCHANGED treevars
    \/ QueuePop /\ UNCHANGED treevars
    \/ QueueFront /\ UNCHANGED treevars
    \/ QueueBack /\ UNCHANGED treevars

QueueSpec == QInit /\ [][QNext]_vars

TypeOK ==
    /\ root \in alloc \cup {Nil}
    /\ size \in 0..ArenaSize
    /\ node[Nil] = Blank
    /\ llive \subseteq Heap

\* =============================================================== claims
\* iteration by the iterator protocol: begin(), then successor until end()
RECURSIVE Forward(_, _, _)
Forward(T, x, n) ==
    IF x = End \/ n = 0 THEN <<>>
    ELSE <<x>> \o Forward(T, Successor(T, x), n - 1)

\* reverse iteration: predecessor chains, starting from end()
RECURSIVE Backward(_, _, _)
Backward(T, x, n) ==
    IF x = Nil \/ n = 0 THEN <<>>
    ELSE <<x>> \o Backward(T, Predecessor(T, x), n - 1)

Reverse(q) == [i \in 1..Len(q) |-> q[Len(q) + 1 - i]]

ForwardWalk == Forward(CurTree, Begin(CurTree), ArenaSize + 1)

BackwardWalk == Backward(CurTree, Predecessor(CurTree, End), ArenaSize + 1)

\* smallest e with 2^e >= n
CeilLog2(n) == CHOOSE e \in 0..(ArenaSize + 1) :
                  /\ 2 ^ e >= n
                  /\ \A d \in 0..(ArenaSize + 1) : 2 ^ d >= n => e <= d

IsRed(x) == x # Nil /\ node[x].color = "RED"

RedRed == \E i \in 1..Len(Traversal) :
              LET n == Traversal[i]
              IN  IsRed(n) /\ (IsRed(node[n].left) \/ IsRed(node[n].right))

Without(q, i) == [j \in 1..(Len(q) - 1) |-> IF j < i THEN q[j] ELSE q[j + 1]]

Occurrences(ks, k) == Cardinality({i \in 1..Len(ks) : ks[i] = k})

C2_Ordered ==
    LET ks == KeysOf(node, Traversal)
    IN  /\ \A i \in 1..(Len(ks) - 1) : ~Less(ks[i + 1], ks[i])
        /\ kind = "multiset" =>
              \A i \in 1..Len(ks), j \in 1..Len(ks) :
                  (i < j /\ ks[i] = ks[j]) => \A m \in i..j : ks[m] = ks[i]

\* a Multiset holding two different keys, one of them twice, after an erase
C2_Witness ==
    LET ks == KeysOf(node, Traversal)
    IN  /\ kind = "multiset"
        /\ ret.op = "erase" /\ ret.ok
        /\ Len(ks) >= 3
        /\ \E i \in 1..(Len(ks) - 1) : ks[i] = ks[i + 1]
        /\ \E i \in 1..(Len(ks) - 1) : ks[i] # ks[i + 1]

\* C3: after every public operation the stored size is the number of nodes
\* reachable from the root and the number of elements a begin()-to-end()
\* traversal produces.
C3_SizeConsistent ==
    /\ size = Len(Traversal)
    /\ size = Cardinality({Traversal[i] : i \in 1..Len(Traversal)})
    /\ size = Len(ForwardWalk)

\* a merge that moved one element and left a duplicate behind
C3_Witness ==
    /\ ret.op = "merge" /\ ret.key = 2 /\ ~ret.ok
    /\ size >= 3
    /\ size < MaxNodes

\* C4: insert of a key a Set or Map already holds returns (iterator to the
\* existing element, false) and changes nothing; the key occurs once.
C4_UniqueInsertIdempotent ==
    [][(Unique /\ ret'.op = "insert" /\ Contains(CurTree, ret'.key)) =>
          /\ ~ret'.ok
          /\ ret'.err = "none"
          /\ ret'.it = Find(CurTree, ret'.key)
          /\ node' = node /\ root' = root /\ alloc' = alloc /\ size' = size
          /\ Occurrences(KeysOf(node', InOrder(node', root')), ret'.key) = 1]_vars

\* a Map with both keys present has just rejected an insert
C4_Witness ==
    /\ kind = "map"
    /\ ret.op = "insert" /\ ~ret.ok /\ ret.err = "none"
    /\ size = MaxMapKey
    /\ node[ret.it].key = ret.key

\* C5: insert(key) of an absent key followed by erase(key) restores size() and
\* the traversal: the key is gone and the elements held before are listed in
\* the same order.
C5_InsertEraseRoundTrip ==
    hist.stage = "erased" =>
        /\ size = hist.size
        /\ ElemsOf(node, Traversal) = hist.elems
        /\ Occurrences(KeysOf(node, Traversal), hist.key) = 0
        /\ Find(CurTree, hist.key) = End

\* the round trip has been made on a tree of at least three elements
C5_Witness ==
    /\ hist.stage = "erased"
    /\ size >= 3

\* C6: erase(it) invalidates only the iterators that reference the erased
\* element: an iterator to any other element still references a live node
\* holding the same element.
C6_IteratorsStableUnderErase ==
    [][(ret'.op \in {"erase", "erase_key"} /\ ret'.ok) =>
          \A n \in alloc \ {ret'.it} :
              /\ n \in alloc'
              /\ node'[n].key = node[n].key
              /\ node'[n].val = node[n].val]_vars

\* C7: a Multiset stores every insert of a key as a separate element (only a
\* full arena refuses one), count(key) grows by one, and the new element comes
\* right after the equal elements inserted before it, whose order is kept.
C7_MultisetDuplicates ==
    [][(kind = "multiset" /\ ret'.op = "insert") =>
          LET k  == ret'.key
              q  == Traversal
              q1 == InOrder(node', root')
              T1 == Tree(node', root', alloc')
          IN  IF ret'.ok
              THEN /\ ret'.it \notin alloc /\ ret'.it \in alloc'
                   /\ node'[ret'.it].key = k
                   /\ Count(T1, k) = Count(CurTree, k) + 1
                   /\ Count(T1, k) = Occurrences(KeysOf(node', q1), k)
                   /\ \E i \in 1..Len(q1) :
                         /\ q1[i] = ret'.it
                         /\ Without(q1, i) = q
                         /\ \A j \in 1..Len(q1) : node'[q1[j]].key = k => j <= i
                         /\ Count(CurTree, k) > 0 => node'[q1[i - 1]].key = k
              ELSE /\ Cardinality(alloc) = MaxNodes
                   /\ ret'.err = "AllocationFailure"
                   /\ node' = node /\ size' = size]_vars

\* the same key has been inserted three times
C7_Witness ==
    /\ kind = "multiset"
    /\ ret.op = "insert" /\ ret.ok
    /\ Count(CurTree, ret.key) = 3
    /\ size > 3

C9_IterationComplete ==
    /\ ForwardWalk = Traversal
    /\ Len(ForwardWalk) = size
    /\ BackwardWalk = Reverse(Traversal)

\* a tree of four or more elements after an erase
C9_Witness ==
    /\ ret.op = "erase" /\ ret.ok
    /\ size >= 4

\* C10: erase called with end() signals InvalidIterator to the caller.
C10_EraseEndSignals ==
    (lret.op = "erase" /\ lret.pos = end) => lret.err = "InvalidIterator"

\* C11: dereferencing an iterator equal to end() fails loudly; it never hands
\* back a value.
C11_DerefEndFails ==
    (lret.op = "deref" /\ lret.pos = end) => lret.err # "none"

\* C12: front() and back() called on an empty list throw std::out_of_range
\* instead of returning a value, and leave the list empty and unchanged.
C12_EmptyAccessThrows ==
    [][(lret'.op \in {"front", "back"} /\ Running /\ empty(CurList)) =>
          /\ lret'.err = "out_of_range"
          /\ lst' = "ok"
          /\ size_' = 0
          /\ <<lnode, llive, head_, tail_>>' = <<lnode, llive, head_, tail_>>]_vars

\* back() has thrown on a list emptied by erase, whose tail_ was left behind
C12_Witness ==
    /\ lret.op = "back" /\ lret.err = "out_of_range"
    /\ size_ = 0
    /\ tail_ # Nil

ListAfter == List(lnode', llive', head_', tail_', size_')

\* C19: erase(pos) for an iterator to an element removes exactly that element,
\* keeps the other elements in their order, decreases size() by one and
\* returns an iterator to the element that followed (end() after the last).
C19_EraseRemovesOne ==
    [][(lret'.op = "erase" /\ lret'.pos # end /\ Running) =>
          LET q == Nodes(CurList)
              i == CHOOSE j \in 1..Len(q) : q[j] = lret'.pos
          IN  /\ lst' = "ok"
              /\ Nodes(ListAfter) = Without(q, i)
              /\ Elements(ListAfter) = Without(Elements(CurList), i)
              /\ size_' = size_ - 1
              /\ lret'.it = IF i = Len(q) THEN end ELSE q[i + 1]]_vars

OtherAfter == List(lnode', llive', olist'.head, olist'.tail, olist'.size)

\* C13: a queue is FIFO: front() is the earliest element added and not yet
\* popped, whether listed in the initializer list or pushed, and the queue
\* holds exactly the elements added and not popped, in their order.
C13_QueueFifo ==
    /\ lst = "ok"
    /\ Elements(CurList) = ref
    /\ size_ = Len(ref)
    /\ (lret.op = "front" /\ ref # <<>>) => lret.value = Head(ref)

\* C14: queue::push(value) appends value: back() is value, size() has grown
\* by one and the elements stored before are unchanged, in the same order.
C14_QueuePushAppends ==
    [][lret'.op = "push" =>
          /\ lst' = "ok"
          /\ back(ListAfter).value = ref'[Len(ref')]
          /\ size_' = size_ + 1
          /\ Elements(ListAfter) = Append(Elements(CurList), ref'[Len(ref')])]_vars

\* C15: the stack agrees with a reference last-in-first-out sequence after
\* every step: top(), size() and empty(); a stack constructed from a list has
\* the list's last element on top and the list's size.
C15_StackMatchesReference ==
    /\ lst = "ok"
    /\ size_ = Len(ref)
    /\ empty(CurList) <=> ref = <<>>
    /\ ref # <<>> => back(CurList).value = ref[Len(ref)]
    /\ lret.op = "top" =>
          IF ref = <<>> THEN lret.err = "out_of_range"
          ELSE lret.err = "none" /\ lret.value = ref[Len(ref)]
    /\ lret.op = "copy" =>
          /\ olist.size = Len(ref)
          /\ back(CurOther).err = back(CurList).err
          /\ back(CurOther).value = back(CurList).value

\* top() has been read after pushes and a pop left two different values
C15_Witness ==
    /\ lret.op = "top" /\ lret.err = "none"
    /\ Len(ref) = 2 /\ ref[1] # ref[2]
    /\ Cardinality(llive) = 2
    /\ head_ > tail_

\* C16: copy construction of a stack leaves the source's elements and size as
\* they were, and the new stack holds the same elements in the same order.
C16_StackCopyKeepsSource ==
    [][lret'.op = "copy" =>
          /\ lst' = "ok"
          /\ <<head_, tail_, size_>>' = <<head_, tail_, size_>>
          /\ \A a \in llive : a \in llive' /\ lnode'[a] = lnode[a]
          /\ Elements(ListAfter) = Elements(CurList)
          /\ Elements(OtherAfter) = Elements(CurList)
          /\ olist'.size = size_
          /\ {Nodes(OtherAfter)[i] : i \in 1..Len(Nodes(OtherAfter))} \cap llive = {}]_vars

\* a stack of two different values has been copied
C16_Witness ==
    /\ lret.op = "copy"
    /\ olist.size = 2 /\ size_ = 2
    /\ ref[1] # ref[2]

NodeSet(l) == {Nodes(l)[i] : i \in 1..Len(Nodes(l))}

\* C17: a copy shares no node with its source, and a later push, pop or
\* insert on one of the two, or a copy assignment between them, leaves the
\* other's elements and size as they were.
C17_CopiesIndependent ==
    [][/\ lret'.op = "copy" => NodeSet(ListAfter) \cap NodeSet(OtherAfter) = {}
       /\ (olist.by = "copy" /\ Running) =>
             /\ lret'.op \in {"push_back", "pop_back", "pop_front", "insert"} =>
                   /\ lst' = "ok"
                   /\ Elements(OtherAfter) = Elements(CurOther)
                   /\ olist'.size = olist.size
             /\ lret'.op \in {"other.push_back", "other.pop_front", "other.insert"} =>
                   /\ lst' = "ok"
                   /\ Elements(ListAfter) = Elements(CurList)
                   /\ size_' = size_
             /\ lret'.op = "copy_assign" =>
                   /\ lst' = "ok"
                   /\ Elements(OtherAfter) = Elements(CurList)
                   /\ Elements(ListAfter) = Elements(CurList)
                   /\ NodeSet(ListAfter) \cap NodeSet(OtherAfter) = {}]_vars

\* C18: move construction hands the source's elements, in order, to the new
\* list; the source is left empty with no node of its own, and can be used
\* again without touching the new list.
C18_MoveTransfers ==
    [][/\ lret'.op = "move" =>
             /\ lst' = "ok"
             /\ Elements(OtherAfter) = Elements(CurList)
             /\ Nodes(OtherAfter) = Nodes(CurList)
             /\ olist'.size = size_
             /\ size_' = 0 /\ empty(ListAfter)
             /\ head_' = Nil /\ tail_' = Nil
             /\ lnode' = lnode /\ llive' = llive
       /\ (olist.by = "move" /\ Running /\ lret'.op = "push_back") =>
             /\ lst' = "ok"
             /\ size_' = size_ + 1
             /\ Len(Elements(ListAfter)) = size_'
             /\ SubSeq(Elements(ListAfter), 1, size_) = Elements(CurList)
             /\ Elements(OtherAfter) = Elements(CurOther)
             /\ NodeSet(ListAfter) \cap NodeSet(OtherAfter) = {}]_vars

\* a list of two different values has been moved from, then pushed to again
C18_Witness ==
    /\ olist.by = "move"
    /\ lret.op = "push_back"
    /\ olist.size = 2 /\ Elements(CurOther)[1] # Elements(CurOther)[2]
    /\ size_ = 1

\* the place of an iterator in the begin()-to-end() order, end() coming last
IndexOf(l, pos) ==
    IF pos = end THEN Len(Nodes(l)) + 1
    ELSE CHOOSE i \in 1..Len(Nodes(l)) : Nodes(l)[i] = pos

\* C20: splice(pos, other) moves the elements of other, in their order, to
\* just before pos, for every pos from cbegin() to cend(): size() is the sum
\* of both sizes, other is empty, and the elements before and after pos keep
\* their order; an empty other changes nothing.
C20_SpliceBeforePos ==
    [][(lret'.op = "splice" /\ Running) =>
          LET q == Elements(CurList)
              i == IndexOf(CurList, lret'.pos)
          IN  /\ lst' = "ok"
              /\ Elements(ListAfter) =
                    SubSeq(q, 1, i - 1) \o Elements(CurOther) \o SubSeq(q, i, Len(q))
              /\ size_' = size_ + olist.size
              /\ olist'.size = 0
              /\ Elements(OtherAfter) = <<>>]_vars

\* the merge the claim describes: an element of b goes before the first
\* remaining element of a that is strictly greater
RECURSIVE Interleaved(_, _)
Interleaved(a, b) ==
    IF b = <<>> THEN a
    ELSE IF a = <<>> THEN b
    ELSE IF b[1] < a[1] THEN <<b[1]>> \o Interleaved(a, Tail(b))
    ELSE <<a[1]>> \o Interleaved(Tail(a), b)

NonDecreasing(q) == \A i \in 1..(Len(q) - 1) : q[i] <= q[i + 1]

\* C21: merge(other) ends with every element of other moved into this list
\* and other empty; both relative orders are kept and an element of other
\* goes before the first remaining element of this list that is strictly
\* greater; two sorted lists give a sorted list, with this list's elements
\* before the equal ones of other.
C21_MergeInterleaves ==
    [][(lst = "ok" /\ lret'.op = "merge")
         => /\ lst' = "ok"
            /\ Elements(ListAfter) = Interleaved(Elements(CurList), Elements(CurOther))
            /\ size_' = size_ + olist.size
            /\ Elements(OtherAfter) = <<>>
            /\ olist'.size = 0
            /\ empty(OtherAfter)
            /\ (NonDecreasing(Elements(CurList)) /\ NonDecreasing(Elements(CurOther))
                  => NonDecreasing(Elements(ListAfter)))]_vars

C21_Witness ==
    /\ lst = "ok" /\ lret.op = "merge"
    /\ Elements(CurList) = <<1, 2, 2>>
    /\ olist.size = 0

\* the elements that differ from the one before them
RECURSIVE Runs(_)
Runs(q) ==
    IF Len(q) < 2 THEN q
    ELSE IF q[1] = q[2] THEN Runs(Tail(q))
    ELSE <<q[1]>> \o Runs(Tail(q))

\* C22: unique() removes every element equal to the one before it: no two
\* adjacent elements are equal afterwards, equal elements that were apart
\* stay, size() is the number of runs and back() the value of the last run.
C22_UniqueKeepsRuns ==
    [][(lst = "ok" /\ lret'.op = "unique")
         => /\ lst' = "ok"
            /\ Elements(ListAfter) = Runs(Elements(CurList))
            /\ \A i \in 1..(Len(Elements(ListAfter)) - 1) :
                  Elements(ListAfter)[i] # Elements(ListAfter)[i + 1]
            /\ size_' = Len(Runs(Elements(CurList)))
            /\ (size_ > 0 => /\ back(ListAfter).err = "none"
                              /\ back(ListAfter).value = Elements(CurList)[size_])]_vars

C22_Witness ==
    /\ lst = "ok" /\ lret.op = "unique"
    /\ Elements(CurList) = <<1, 2, 1>>
    /\ Cardinality(llive) = 3 /\ olist.size = 0

\* C23: reverse() turns e1..en into en..e1 with size() unchanged; a list of
\* size 0 or 1 stays as it is, front() and back() change places, and a
\* second reverse() restores the list.
C23_ReverseReverses ==
    [][(lst = "ok" /\ lret'.op = "reverse")
         => /\ lst' = "ok"
            /\ Elements(ListAfter) = Reverse(Elements(CurList))
            /\ size_' = size_
            /\ (size_ < 2 => Elements(ListAfter) = Elements(CurList))
            /\ (size_ > 0 => /\ front(ListAfter).value = back(CurList).value
                              /\ back(ListAfter).value = front(CurList).value)
            /\ ~reverse(ListAfter).uaf /\ ~reverse(ListAfter).nullderef
            /\ Elements(reverse(ListAfter).list) = Elements(CurList)
            /\ reverse(ListAfter).list.head = head_
            /\ reverse(ListAfter).list.tail = tail_]_vars

C23_Witness ==
    /\ lst = "ok" /\ lret.op = "reverse"
    /\ Elements(CurList) = <<2, 1, 1>>

\* C24: swap(other) exchanges the element sequences and the sizes of the two
\* lists, of different sizes too; a second swap restores both.
C24_SwapExchanges ==
    [][(lst = "ok" /\ lret'.op = "swap")
         => /\ lst' = "ok"
            /\ Elements(ListAfter) = Elements(CurOther)
            /\ Elements(OtherAfter) = Elements(CurList)
            /\ size_' = olist.size
            /\ olist'.size = size_
            /\ swap(ListAfter, OtherAfter).this = CurMembers
            /\ swap(ListAfter, OtherAfter).that = OtherMembers]_vars

C24_Witness ==
    /\ lst = "ok" /\ lret.op = "swap"
    /\ Elements(CurList) = <<1>>
    /\ Elements(CurOther) = <<2, 1>>

\* C25: pop_front() removes the first element and nothing else: the others
\* keep their order, size() drops by one, and a list of one element becomes
\* empty with head_ and tail_ both null.
C25_PopFrontRemovesFirst ==
    [][(lst = "ok" /\ lret'.op = "pop_front" /\ size_ > 0)
         => /\ lst' = "ok"
            /\ Elements(ListAfter) = Tail(Elements(CurList))
            /\ size_' = size_ - 1
            /\ (size_ = 1 => /\ head_' = Nil /\ tail_' = Nil
                              /\ size_' = 0 /\ empty(ListAfter))]_vars

C25_Witness ==
    /\ lst = "ok" /\ lret.op = "pop_front"
    /\ Elements(CurList) = <<2, 1>>
    /\ Cardinality(llive) = 2

\* C26: l == other is true exactly when the two lists have the same size and
\* equal elements position by position.
C26_EqualElementwise ==
    (lst = "ok" /\ lret.op = "equal")
      => (lret.value <=> /\ size_ = olist.size
                         /\ Len(Elements(CurList)) = Len(Elements(CurOther))
                         /\ \A i \in 1..size_ :
                               Elements(CurList)[i] = Elements(CurOther)[i])

C26_Witness ==
    /\ lst = "ok" /\ lret.op = "equal" /\ lret.value
    /\ Elements(CurList) = <<1, 2>>

\* C27: sort() orders the list as the standard sort does: afterwards the
\* elements are in non-decreasing order, they are the elements the list held
\* and size() is unchanged.
C27_SortOrders ==
    [][(lst = "ok" /\ lret'.op = "sort")
         => /\ lst' = "ok"
            /\ NonDecreasing(Elements(ListAfter))
            /\ \A v \in ListVals :
                  Occurrences(Elements(ListAfter), v) = Occurrences(Elements(CurList), v)
            /\ size_' = size_]_vars

\* C28: after a move assignment of a queue or a stack the left-hand side
\* holds the elements the right-hand side held, in their order, and the
\* right-hand side is a valid object.
C28_MoveAssignTransfers ==
    [][(lst = "ok" /\ lret'.op \in {"queue.move_assign", "stack.move_assign"})
         => /\ lst' = "ok"
            /\ Elements(ListAfter) = Elements(CurOther)
            /\ size_' = olist.size
            /\ olist'.made
            /\ olist'.size = Len(Elements(OtherAfter))]_vars

\* C29: after any sequence of public operations the list is well formed:
\* head_ is null exactly when tail_ is null and exactly when size_ is 0; in a
\* non-empty list head_->prev_ and tail_->next_ are null, tail_ is reached
\* from head_ by next_, and n->next_->prev_ is n for every node n but tail_.
C29_WellFormed ==
    lst = "ok"
      => /\ (head_ = Nil <=> tail_ = Nil)
         /\ (head_ = Nil <=> size_ = 0)
         /\ (head_ # Nil
               => /\ lnode[head_].prev = Nil
                  /\ tail_ # Nil => lnode[tail_].next = Nil
                  /\ tail_ \in NodeSet(CurList)
                  /\ \A n \in NodeSet(CurList) :
                        (n # tail_ /\ lnode[n].next # Nil)
                          => lnode[lnode[n].next].prev = n)

\* C30: size() is the number of elements an iteration from begin() to end()
\* visits, and empty() holds exactly when begin() == end().
C30_SizeCountsElements ==
    lst = "ok"
      => /\ size_ = Len(Nodes(CurList))
         /\ (empty(CurList) <=> begin(CurList) = end)

\* C31: in every list reached through the public operations, insert(pos, v),
\* erase(pos) and splice(pos, other) with pos in [begin(), end()] never read
\* or write through a null pointer or a deleted node.
C31_PositionalOpsMemorySafe ==
    [][(lst = "ok" /\ lret'.op \in {"insert", "erase", "splice"})
         => lst' = "ok"]_vars

\* q with v put before its i-th element (after the last when i = Len(q) + 1)
PutBefore(q, i, v) ==
    [j \in 1..(Len(q) + 1) |-> IF j < i THEN q[j] ELSE IF j = i THEN v ELSE q[j - 1]]

\* C32: insert(pos, value) on any list reached through the public operations
\* and any pos in [begin(), end()] puts value right before the element at pos
\* (last for end(), first for begin()), returns an iterator to the new
\* element, adds one to size() and keeps the other elements in order; a
\* traversal from begin() to end() visits the new element.
C32_InsertBeforePos ==
    [][(lst = "ok" /\ lret'.op = "insert")
         => /\ lst' = "ok"
            /\ lret'.it \in llive' \ llive
            /\ lret'.it \in NodeSet(ListAfter)
            /\ Elements(ListAfter)
                 = PutBefore(Elements(CurList), IndexOf(CurList, lret'.pos),
                             lnode'[lret'.it].value)
            /\ Nodes(ListAfter)
                 = PutBefore(Nodes(CurList), IndexOf(CurList, lret'.pos), lret'.it)
            /\ size_' = size_ + 1
            /\ size_' = Len(Nodes(ListAfter))]_vars

\* a push on the list l works: no fault, and l holds v alone afterwards
PushWorks(o, a, v) ==
    /\ ~o.nullderef /\ ~o.uaf
    /\ Elements(o.list) = <<v>>
    /\ o.list.head = a /\ o.list.tail = a /\ o.list.size = 1

\* C33: pop_back() and pop_front() on an empty list leave it
\* empty with size() == 0 and head_ and tail_ null; the size does not
\* underflow and a following push_back or push_front works.
C33_PopEmptyNullsLinks ==
    [][(lst = "ok" /\ size_ = 0 /\ lret'.op \in {"pop_back", "pop_front"})
         => /\ lst' = "ok"
            /\ size_' = 0
            /\ head_' = Nil /\ tail_' = Nil
            /\ \A a \in Heap \ llive', v \in ListVals :
                  /\ PushWorks(push_back(ListAfter, a, v), a, v)
                  /\ PushWorks(push_front(ListAfter, a, v), a, v)]_vars

\* C34: clear() (and so the destructor) ends from every list reached through
\* the public operations, deletes every node once, and leaves the list empty:
\* size() == 0, head_ and tail_ null.
C34_ClearDeletesAll ==
    [][(lst = "ok" /\ lret'.op = "clear")
         => /\ lst' = "ok"
            /\ size_' = 0
            /\ head_' = Nil /\ tail_' = Nil
            /\ llive' = {}]_vars

\* the number of parent links from x up to the root
RECURSIVE Depth(_, _, _)
Depth(N, x, n) ==
    IF x = Nil \/ N[x].parent = Nil \/ n = 0 THEN 0
    ELSE 1 + Depth(N, N[x].parent, n - 1)

ParentRed(N, x) == N[x].parent # Nil /\ N[N[x].parent].color = "RED"

\* C35: the insertion fixup ends: a pass of the loop is made only while the
\* current node's parent is RED; a pass with a RED uncle moves the current
\* node strictly closer to the root; a pass with a BLACK uncle makes at most
\* two rotations and is the last one; on exit the root is BLACK; and every
\* insert under way reaches its exit.
C35_InsertFixupTerminates ==
    /\ [][/\ (fixup.phase = "loop" /\ fixup'.phase = "loop")
              => /\ ParentRed(node, fixup.z)
                 /\ fixup'.case \in {"recolor", "rotate"}
                 /\ fixup'.case = "recolor"
                       => /\ Depth(node', fixup'.z, ArenaSize)
                               < Depth(node, fixup.z, ArenaSize)
                          /\ root' = root
                 /\ fixup'.case = "rotate"
                       => /\ fixup'.rotations \in 1..2
                          /\ ~ParentRed(node', fixup'.z)
                          /\ FixupStep(Tree(node', root', alloc'), fixup'.z).case = "exit"
          /\ (fixup.phase = "loop" /\ fixup'.phase = "idle")
              => /\ ~ParentRed(node, fixup.z)
                 /\ node'[root'].color = "BLACK"
                 /\ Tree(node', root', alloc')
                      = InsertFixup(Tree(node, root, alloc), fixup.z)]_vars
    /\ (fixup.phase = "loop") ~> (fixup.phase = "idle")

\* a pass with a RED uncle after which the loop goes on: the grandparent,
\* now RED, has a RED parent
C35_Witness ==
    /\ fixup.phase = "loop" /\ fixup.case = "recolor"
    /\ ParentRed(node, fixup.z)

====
